---- MODULE Spec2Model ----
(***************************************************************************)
(* Model of the percolation engine of src/attack_simulator.py:            *)
(* class AttackSimulator (__init__, get_gc_size_only, simulate).           *)
(*                                                                         *)
(* Graphs are networkx DiGraph objects (load_network, line 243, and the    *)
(* Erdos-Renyi baseline, line 218 with directed=G.is_directed(), build     *)
(* nothing else), so G.is_directed() is true and connectivity is weak      *)
(* connectivity.  A graph object is a record [nodes, edges]: nodes is the  *)
(* sequence of node ids in iteration (insertion) order, edges a set of     *)
(* ordered pairs.  Graph objects live in a heap indexed by references, so  *)
(* that copying (graph.copy()) and aliasing are different things.          *)
(*                                                                         *)
(* Python floats a / b are kept as exact fractions <<a, b>>.               *)
(***************************************************************************)
EXTENDS Integers, Sequences, FiniteSets, TLC

\* ------------------------------------------------------------------ bounds
MaxNodes == 3
MaxEdges == 2
MaxSteps == 4
MaxPath == 5
RngMod == 3
StarLeaves == 20
MaxStarSteps == 22
MaxConcSteps == 2

\* line 55: k = 1000 if "approx" in strategy else None
ApproxK == 1000

Threads == {1, 2}

\* ------------------------------------------------------------- small helpers
Max2(a, b) == IF a >= b THEN a ELSE b

Min2(a, b) == IF a <= b THEN a ELSE b

Range(s) == {s[i] : i \in DOMAIN s}

Frac(a, b) == <<a, b>>

\* a / b <= c / d for fractions with positive denominators
FracLe(p, q) == p[1] * q[2] <= q[1] * p[2]

FracEq(p, q) == p[1] * q[2] = q[1] * p[2]

\* int(a / b) for b # 0: true division, truncated toward zero
IntTrunc(a, b) ==
  LET aa == IF a < 0 THEN 0 - a ELSE a
      ab == IF b < 0 THEN 0 - b ELSE b
      q  == aa \div ab
  IN IF (a < 0) = (b < 0) THEN q ELSE 0 - q

\* seq[a:b] of Python, 0 <= a, 0 <= b (0-based, end exclusive, clipped)
Slice(s, a, b) == SubSeq(s, Min2(a, Len(s)) + 1, Min2(b, Len(s)))

\* ------------------------------------------------------------------- graphs
EmptyGraph == [nodes |-> <<>>, edges |-> {}]

NodeSet(g) == Range(g.nodes)

\* len(G)
GraphLen(g) == Len(g.nodes)

RECURSIVE FilterSeq(_, _)
FilterSeq(s, keep) ==
  IF s = <<>> THEN <<>>
  ELSE IF Head(s) \in keep THEN <<Head(s)>> \o FilterSeq(Tail(s), keep)
       ELSE FilterSeq(Tail(s), keep)

\* G.remove_nodes_from(batch): the nodes and their incident edges go; a node
\* that is absent is skipped silently
RemoveNodes(g, batch) ==
  LET gone == Range(batch)
  IN [nodes |-> FilterSeq(g.nodes, NodeSet(g) \ gone),
      edges |-> {e \in g.edges : e[1] \notin gone /\ e[2] \notin gone}]

\* G.degree(n) of a DiGraph: in-degree plus out-degree
Degree(g, n) ==
  Cardinality({e \in g.edges : e[1] = n}) + Cardinality({e \in g.edges : e[2] = n})

\* G.in_degree(n)
InDegree(g, n) == Cardinality({e \in g.edges : e[2] = n})

RECURSIVE Grow(_, _)
Grow(g, S) ==
  LET T == S \cup {e[2] : e \in {d \in g.edges : d[1] \in S}}
             \cup {e[1] : e \in {d \in g.edges : d[2] \in S}}
  IN IF T = S THEN S ELSE Grow(g, T)

\* nx.weakly_connected_components(G): the partition of the node set
Components(g) == {Grow(g, {n}) : n \in NodeSet(g)}

\* nx.number_weakly_connected_components(G)
NumComponents(g) == Cardinality(Components(g))

SetMax(S) == CHOOSE m \in S : \A k \in S : k <= m

SetMin(S) == CHOOSE m \in S : \A k \in S : m <= k

\* the size of the smallest component, where the code takes the largest
GcSizeMin(g) ==
  IF GraphLen(g) = 0 THEN 0
  ELSE SetMin({Cardinality(c) : c \in Components(g)})

\* AttackSimulator.get_gc_size_only
GetGcSizeOnly(g) ==
  IF GraphLen(g) = 0 THEN 0
  ELSE SetMax({Cardinality(c) : c \in Components(g)})

\* ------------------------------------------------------------------ ranking
\* one insertion of a stable descending sort: e goes behind every element whose
\* key is at least its own
InsertDesc(acc, e, key) ==
  LET p == Cardinality({i \in 1..Len(acc) : key[acc[i]] >= key[e]})
  IN SubSeq(acc, 1, p) \o <<e>> \o SubSeq(acc, p + 1, Len(acc))

\* the same with the order of the keys reversed (an ascending sort)
InsertAsc(acc, e, key) ==
  LET p == Cardinality({i \in 1..Len(acc) : key[acc[i]] <= key[e]})
  IN SubSeq(acc, 1, p) \o <<e>> \o SubSeq(acc, p + 1, Len(acc))

RECURSIVE SortedDescFrom(_, _, _)
SortedDescFrom(acc, rest, key) ==
  IF rest = <<>> THEN acc
  ELSE SortedDescFrom(InsertDesc(acc, Head(rest), key), Tail(rest), key)

RECURSIVE SortedAscFrom(_, _, _)
SortedAscFrom(acc, rest, key) ==
  IF rest = <<>> THEN acc
  ELSE SortedAscFrom(InsertAsc(acc, Head(rest), key), Tail(rest), key)

\* sorted(s, key=..., reverse=True): stable, equal keys keep their order
SortedDesc(s, key) == SortedDescFrom(<<>>, s, key)

\* degree ranking sorted the wrong way round (lowest degree first)
DegreeRankingAscending(g) ==
  SortedAscFrom(<<>>, g.nodes, [n \in NodeSet(g) |-> Degree(g, n)])

\* line 50: sorted(G.nodes(), key=lambda n: G.degree(n), reverse=True)
DegreeRanking(g) ==
  SortedDesc(g.nodes, [n \in NodeSet(g) |-> Degree(g, n)])

\* line 52: sorted(G.nodes(), key=lambda n: G.in_degree(n), reverse=True)
InDegreeRanking(g) ==
  SortedDesc(g.nodes, [n \in NodeSet(g) |-> InDegree(g, n)])

RECURSIVE SumFn(_)
SumFn(f) ==
  IF DOMAIN f = {} THEN 0
  ELSE LET x == CHOOSE y \in DOMAIN f : TRUE
       IN f[x] + SumFn([y \in DOMAIN f \ {x} |-> f[y]])

RECURSIVE ProdFn(_)
ProdFn(f) ==
  IF DOMAIN f = {} THEN 1
  ELSE LET x == CHOOSE y \in DOMAIN f : TRUE
       IN f[x] * ProdFn([y \in DOMAIN f \ {x} |-> f[y]])

\* breadth-first distances along the edge direction; -1 marks unreached
RECURSIVE BfsDist(_, _, _, _)
BfsDist(g, frontier, dist, d) ==
  IF frontier = {} THEN dist
  ELSE LET next == {m \in NodeSet(g) :
                      dist[m] = -1 /\ \E u \in frontier : <<u, m>> \in g.edges}
       IN BfsDist(g, next,
                  [m \in NodeSet(g) |-> IF m \in next THEN d + 1 ELSE dist[m]],
                  d + 1)

DistFrom(g, s) ==
  BfsDist(g, {s}, [n \in NodeSet(g) |-> IF n = s THEN 0 ELSE -1], 0)

\* the number of shortest paths from s to m, m reached from s
RECURSIVE SigmaTo(_, _, _, _)
SigmaTo(g, dist, s, m) ==
  IF m = s THEN 1
  ELSE LET preds == {u \in NodeSet(g) :
                       <<u, m>> \in g.edges /\ dist[u] >= 0 /\ dist[u] = dist[m] - 1}
       IN SumFn([u \in preds |-> SigmaTo(g, dist, s, u)])

\* nx.betweenness_centrality(G, k): for every node the sum, over the ordered
\* pairs (s, t) around it, of the share of shortest s-t paths through it.  The
\* shares are fractions; each score is scaled by the product of all path
\* counts, which keeps the order of the scores.  With k = N every node is a
\* source, and k = None means the same, so k does not change the scores.
Betweenness(g) ==
  LET NS    == NodeSet(g)
      D     == [s \in NS |-> DistFrom(g, s)]
      Sg    == [s \in NS |-> [m \in NS |->
                  IF D[s][m] < 0 THEN 0 ELSE SigmaTo(g, D[s], s, m)]]
      Pairs == {p \in NS \X NS : p[1] # p[2] /\ D[p[1]][p[2]] > 0}
      P     == ProdFn([p \in Pairs |-> Sg[p[1]][p[2]]])
      Via(v) == {p \in Pairs : /\ p[1] # v /\ p[2] # v
                               /\ D[p[1]][v] > 0 /\ D[v][p[2]] > 0
                               /\ D[p[1]][v] + D[v][p[2]] = D[p[1]][p[2]]}
  IN [v \in NS |->
        SumFn([p \in Via(v) |->
                 Sg[p[1]][v] * Sg[v][p[2]] * (P \div Sg[p[1]][p[2]])])]

\* line 60: sorted(bc, key=bc.get, reverse=True); bc lists the nodes in the
\* graph's iteration order
BetweennessRanking(g) == SortedDesc(g.nodes, Betweenness(g))

\* lines 55-56: k = 1000 if "approx" in strategy else None, capped at N.
\* None is -1 here.  "if k and k > N" leaves k alone when it is None.
SampleK(strategy, n) ==
  IF strategy = "betweenness_approx"
  THEN (IF ApproxK > n THEN n ELSE ApproxK)
  ELSE -1

\* ----------------------------------------------- the module-global generator
\* random.shuffle (line 48) and the source sample of betweenness_centrality
\* with seed=None (line 59) draw from the one generator of the random module.
\* Its state is a number; a draw reads the state and advances it.
RngNext(s) == (s + 1) % RngMod

\* randbelow(n), n >= 1: a number in 0..n-1 determined by the state
RandBelow(s, n) == s % n

RECURSIVE RngSkip(_, _)
RngSkip(s, k) == IF k <= 0 THEN s ELSE RngSkip(RngNext(s), k - 1)

\* x[i], x[j] = x[j], x[i] on 0-based positions
Swap(s, i, j) ==
  [p \in 1..Len(s) |->
     IF p = i + 1 THEN s[j + 1] ELSE IF p = j + 1 THEN s[i + 1] ELSE s[p]]

\* one pass of the loop of random.shuffle, at 0-based index i >= 1
ShuffleOne(s, i, r) == Swap(s, i, RandBelow(r, i + 1))

\* random.shuffle run to its end without interruption, from index i down to 1
RECURSIVE ShuffleFrom(_, _, _)
ShuffleFrom(s, i, r) ==
  IF i < 1 THEN s ELSE ShuffleFrom(ShuffleOne(s, i, r), i - 1, RngNext(r))

\* -------------------------------------------------------------------- state
VARIABLES
  heap,             \* reference -> graph object
  orig,             \* the value of the caller's graph when the engine was built
  constructed,      \* AttackSimulator.__init__ has run
  self_graph,       \* self.graph: a reference
  initial_size,     \* self.initial_size
  initial_gc_size,  \* self.initial_gc_size
  rng,              \* state of the generator of the random module
  frame             \* thread -> the locals of its simulate call

vars == <<heap, orig, constructed, self_graph, initial_size, initial_gc_size,
          rng, frame>>

Refs == {"caller", "engine", "work1", "work2"}

\* the object a copy made by thread t is stored in
WorkRef(t) == IF t = 1 THEN "work1" ELSE "work2"

\* a copy that is no copy: the same object under another name
GraphCopyAlias(src, fresh) == src

\* graph.copy() (lines 20 and 42): a new object, with the value of src
GraphCopy(src, fresh) == fresh

Strategies ==
  {"random", "degree", "indegree", "betweenness", "betweenness_approx", "pagerank"}

\* line 53: "betweenness" in strategy
IsBetweenness(strategy) == strategy \in {"betweenness", "betweenness_approx"}

StepsInputs == -1 .. MaxSteps

\* directed graphs without self-loops on nodes 1..n
GraphsOn(n) ==
  {[nodes |-> [i \in 1..n |-> i], edges |-> E] :
     E \in {F \in SUBSET {p \in (1..n) \X (1..n) : p[1] # p[2]} :
              Cardinality(F) <= MaxEdges}}

\* the directed path 1 -> 2 -> ... -> n
PathGraph(n) ==
  [nodes |-> [i \in 1..n |-> i], edges |-> {<<i, i + 1>> : i \in 1..n - 1}]

\* every small graph, and longer paths for batches of more than one node
Graphs ==
  UNION {GraphsOn(n) : n \in 0..MaxNodes}
    \cup {PathGraph(n) : n \in MaxNodes + 1 .. MaxPath}

\* res with the first fragmentation reading never appended
InitialResNoFrag(frag0) ==
  [x |-> <<Frac(0, 1)>>, gc |-> <<Frac(1, 1)>>, frag |-> <<>>]

\* lines 67-73: res = {'x': [0.0], 'gc': [1.0], 'frag': []}, then the append
\* of the initial component count
InitialRes(frag0) ==
  [x |-> <<Frac(0, 1)>>, gc |-> <<Frac(1, 1)>>, frag |-> <<frag0>>]

\* the guard of line 78 left out
ExhaustedNever(removed_count, n) == FALSE

\* line 78: if removed_count >= N: break
Exhausted(removed_count, n) == removed_count >= n

\* a slice that always starts at the head of the ranking
BatchFromHead(nodes, removed_count, chunk) == Slice(nodes, 0, chunk)

\* line 81: batch = nodes[removed_count : removed_count + chunk]
BatchOf(nodes, removed_count, chunk) ==
  Slice(nodes, removed_count, removed_count + chunk)

\* the fraction of nodes left, where the code records the fraction removed
FractionRemaining(removed_count, size) == Frac(size - removed_count, size)

\* line 98: removed_count / self.initial_size
FractionRemoved(removed_count, size) == Frac(removed_count, size)

\* line 99: gc_sz / self.initial_gc_size
GcFraction(gc_sz, gc_size) == Frac(gc_sz, gc_size)

\* line 65: chunk = max(1, int(N / steps)), steps # 0
ChunkSize(n, steps) == Max2(1, IntTrunc(n, steps))

IdleFrame ==
  [pc |-> "idle", strategy |-> "", steps |-> 0, G |-> "none", N |-> 0,
   nodes |-> <<>>, k |-> -1, shuffle_i |-> 0, chunk |-> 0, removed_count |-> 0,
   iter |-> 0, res |-> [x |-> <<>>, gc |-> <<>>, frag |-> <<>>],
   error |-> "none", batches |-> <<>>, rng0 |-> 0]

InitWith(graphs, seeds) ==
  /\ orig \in graphs
  /\ heap = [r \in Refs |-> IF r = "caller" THEN orig ELSE EmptyGraph]
  /\ constructed = FALSE
  /\ self_graph = "none"
  /\ initial_size = 0
  /\ initial_gc_size = 0
  /\ rng \in seeds
  /\ frame = [t \in Threads |-> IdleFrame]

Init == InitWith(Graphs, 0 .. RngMod - 1)

\* ------------------------------------------------------------------ actions
\* AttackSimulator.__init__ (lines 19-22)
New ==
  /\ ~constructed
  /\ LET ref == GraphCopy("caller", "engine")
         hp  == [heap EXCEPT ![ref] = heap["caller"]]
     IN /\ heap' = hp
        /\ self_graph' = ref
        /\ initial_size' = GraphLen(hp[ref])
        /\ initial_gc_size' = GetGcSizeOnly(hp[ref])
  /\ constructed' = TRUE
  /\ UNCHANGED <<orig, rng, frame>>

\* simulate, lines 40-43: the call, G = self.graph.copy(), N = len(G)
Call(t, strat, st) ==
  /\ constructed
  /\ frame[t].pc \in {"idle", "done", "failed"}
  /\ LET ref == GraphCopy(self_graph, WorkRef(t))
         hp  == [heap EXCEPT ![ref] = heap[self_graph]]
     IN /\ heap' = hp
        /\ frame' = [frame EXCEPT ![t] =
                       [IdleFrame EXCEPT !.pc = "rank", !.strategy = strat,
                                         !.steps = st, !.G = ref,
                                         !.N = GraphLen(hp[ref]), !.rng0 = rng]]
  /\ UNCHANGED <<orig, constructed, self_graph, initial_size, initial_gc_size, rng>>

\* simulate, lines 46-62: the ranking, or ValueError for an unknown strategy.
\* For "random" this is nodes = list(G.nodes()); the shuffle follows draw by draw.
Rank(t) ==
  LET f == frame[t]
      g == heap[f.G]
      k == SampleK(f.strategy, f.N)
  IN /\ f.pc = "rank"
     /\ frame' = [frame EXCEPT ![t] =
          CASE f.strategy = "random" ->
                 [f EXCEPT !.nodes = g.nodes, !.shuffle_i = Len(g.nodes) - 1,
                           !.pc = IF Len(g.nodes) - 1 >= 1 THEN "shuffle" ELSE "exec"]
            [] f.strategy = "degree" ->
                 [f EXCEPT !.nodes = DegreeRanking(g), !.pc = "exec"]
            [] f.strategy = "indegree" ->
                 [f EXCEPT !.nodes = InDegreeRanking(g), !.pc = "exec"]
            [] IsBetweenness(f.strategy) ->
                 [f EXCEPT !.nodes = BetweennessRanking(g), !.k = k, !.pc = "exec"]
            [] OTHER ->
                 [f EXCEPT !.pc = "failed", !.error = "ValueError"]]
     /\ rng' = IF IsBetweenness(f.strategy) /\ k >= 0 THEN RngSkip(rng, k) ELSE rng
     /\ UNCHANGED <<heap, orig, constructed, self_graph, initial_size, initial_gc_size>>

\* random.shuffle(nodes) (line 48), one pass of its loop:
\* for i in reversed(range(1, len(x))): j = randbelow(i + 1); swap
ShuffleStep(t) ==
  LET f == frame[t]
  IN /\ f.pc = "shuffle"
     /\ frame' = [frame EXCEPT ![t] =
          [f EXCEPT !.nodes = ShuffleOne(f.nodes, f.shuffle_i, rng),
                    !.shuffle_i = f.shuffle_i - 1,
                    !.pc = IF f.shuffle_i - 1 >= 1 THEN "shuffle" ELSE "exec"]]
     /\ rng' = RngNext(rng)
     /\ UNCHANGED <<heap, orig, constructed, self_graph, initial_size, initial_gc_size>>

\* simulate, lines 65-75: chunk, res with the initial readings, removed_count.
\* N / steps raises ZeroDivisionError for steps = 0.
Setup(t) ==
  LET f == frame[t]
  IN /\ f.pc = "exec"
     /\ frame' = [frame EXCEPT ![t] =
          IF f.steps = 0
          THEN [f EXCEPT !.pc = "failed", !.error = "ZeroDivisionError"]
          ELSE [f EXCEPT !.chunk = ChunkSize(f.N, f.steps),
                         !.res = InitialRes(NumComponents(heap[f.G])),
                         !.removed_count = 0, !.iter = 0, !.pc = "loop"]]
     /\ UNCHANGED <<heap, orig, constructed, self_graph, initial_size,
                    initial_gc_size, rng>>

\* simulate, lines 77-102: one pass of "for _ in range(steps)" that gets past
\* the break of line 78.  The divisions of lines 98-99 raise ZeroDivisionError
\* on a zero divisor, after the batch was removed.
Batch(t) ==
  LET f     == frame[t]
      batch == BatchOf(f.nodes, f.removed_count, f.chunk)
      g2    == RemoveNodes(heap[f.G], batch)
      rc    == f.removed_count + Len(batch)
      gc_sz == GetGcSizeOnly(g2)
      frag  == NumComponents(g2)
      base  == [f EXCEPT !.removed_count = rc, !.batches = Append(@, batch)]
  IN /\ f.pc = "loop"
     /\ f.iter < f.steps
     /\ ~Exhausted(f.removed_count, f.N)
     /\ heap' = [heap EXCEPT ![f.G] = g2]
     /\ frame' = [frame EXCEPT ![t] =
          IF initial_size = 0
          THEN [base EXCEPT !.pc = "failed", !.error = "ZeroDivisionError"]
          ELSE IF initial_gc_size = 0
          THEN [base EXCEPT !.pc = "failed", !.error = "ZeroDivisionError",
                            !.res.x = Append(@, FractionRemoved(rc, initial_size))]
          ELSE [base EXCEPT
                  !.res = [x    |-> Append(f.res.x, FractionRemoved(rc, initial_size)),
                           gc   |-> Append(f.res.gc, GcFraction(gc_sz, initial_gc_size)),
                           frag |-> Append(f.res.frag, frag)],
                  !.iter = f.iter + 1,
                  !.pc = IF gc_sz = 0 THEN "done" ELSE "loop"]]
     /\ UNCHANGED <<orig, constructed, self_graph, initial_size, initial_gc_size, rng>>

\* simulate, lines 77-78 and 104: range(steps) is used up, or the break of
\* line 78; return res
Return(t) ==
  LET f == frame[t]
  IN /\ f.pc = "loop"
     /\ (f.iter >= f.steps \/ Exhausted(f.removed_count, f.N))
     /\ frame' = [frame EXCEPT ![t].pc = "done"]
     /\ UNCHANGED <<heap, orig, constructed, self_graph, initial_size,
                    initial_gc_size, rng>>

\* one engine, its simulate calls one after another (run_single_network_analysis)
Next ==
  \/ New
  \/ \E strat \in Strategies, st \in StepsInputs : Call(1, strat, st)
  \/ Rank(1)
  \/ ShuffleStep(1)
  \/ Setup(1)
  \/ Batch(1)
  \/ Return(1)

Spec == Init /\ [][Next]_vars

\* ---------------------------------------------------- what a call would return
\* lines 46-60 run without interruption, the generator in state r
RankingOf(g, strategy, r) ==
  CASE strategy = "random"   -> ShuffleFrom(g.nodes, Len(g.nodes) - 1, r)
    [] strategy = "degree"   -> DegreeRanking(g)
    [] strategy = "indegree" -> InDegreeRanking(g)
    [] OTHER                 -> BetweennessRanking(g)

\* lines 77-102 run to the end: the result of the loop that has `left` passes
\* left, removed_count nodes removed and res so far
RECURSIVE LoopFrom(_, _, _, _, _, _, _, _)
LoopFrom(g, nodes, chunk, left, removed_count, res, size, gc_size) ==
  IF left <= 0 \/ Exhausted(removed_count, Len(nodes)) THEN res
  ELSE LET batch == BatchOf(nodes, removed_count, chunk)
           g2    == RemoveNodes(g, batch)
           rc    == removed_count + Len(batch)
           gc_sz == GetGcSizeOnly(g2)
           res2  == [x    |-> Append(res.x, FractionRemoved(rc, size)),
                     gc   |-> Append(res.gc, GcFraction(gc_sz, gc_size)),
                     frag |-> Append(res.frag, NumComponents(g2))]
       IN IF gc_sz = 0 THEN res2
          ELSE LoopFrom(g2, nodes, chunk, left - 1, rc, res2, size, gc_size)

\* simulate(strategy, steps) on an engine built on g, run alone with the
\* generator in state r at the call; a known strategy and steps >= 1
SimulateAlone(g, strategy, steps, r) ==
  LoopFrom(g, RankingOf(g, strategy, r), ChunkSize(GraphLen(g), steps), steps, 0,
           InitialRes(NumComponents(g)), GraphLen(g), GetGcSizeOnly(g))

\* ------------------------------------------------------------------- claims
\* thread t's call has returned res, and it was made with steps >= 1
Returned(t) == frame[t].pc = "done" /\ frame[t].steps >= 1

NonDecreasing(s) == \A i \in 1..Len(s) - 1 : FracLe(s[i], s[i + 1])

NonIncreasing(s) == \A i \in 1..Len(s) - 1 : FracLe(s[i + 1], s[i])

\* C1 as claimed: in every result returned for steps >= 1, res['frag'] is
\* exactly one element longer than res['x'] and res['gc'], which are equally long.
C1_FragOneAhead ==
  \A t \in Threads : Returned(t) =>
    /\ Len(frame[t].res.frag) = Len(frame[t].res.x) + 1
    /\ Len(frame[t].res.x) = Len(frame[t].res.gc)

\* C1 amended: in every result returned for steps >= 1, res['frag'], res['x']
\* and res['gc'] have the same length, one more than the number of batches.
C1_EqualLengths ==
  \A t \in Threads : Returned(t) =>
    /\ Len(frame[t].res.frag) = Len(frame[t].res.x)
    /\ Len(frame[t].res.x) = Len(frame[t].res.gc)
    /\ Len(frame[t].res.x) = Len(frame[t].batches) + 1

C1_Witness ==
  \E t \in Threads : Returned(t) /\ Len(frame[t].res.frag) >= 3

\* C2: when simulate returns for steps >= 1, every node has been removed:
\* removed_count = N and the working copy is empty.
C2_GraphExhausted ==
  \A t \in Threads : Returned(t) =>
    /\ frame[t].removed_count = frame[t].N
    /\ GraphLen(heap[frame[t].G]) = 0

\* C3: in every result returned for steps >= 1, res['x'] starts at 0.0, never
\* decreases from one reading to the next and ends at a value <= 1.0.
C3_FractionRemovedMonotone ==
  \A t \in Threads : Returned(t) =>
    LET x == frame[t].res.x
    IN /\ Len(x) >= 1
       /\ \A i \in 1..Len(x) : x[i][2] > 0
       /\ x[1][1] = 0
       /\ NonDecreasing(x)
       /\ FracLe(x[Len(x)], Frac(1, 1))

C3_Witness ==
  \E t \in Threads :
    /\ Returned(t)
    /\ Len(frame[t].res.x) >= 3
    /\ FracEq(frame[t].res.x[Len(frame[t].res.x)], Frac(1, 1))

\* C4: whatever simulate calls have run, returned or failed, the caller's graph
\* is as it was passed in and, once the engine is built, self.graph,
\* initial_size and initial_gc_size are as right after construction; only the
\* call's working copy loses nodes.
C4_SourceGraphUnchanged ==
  /\ heap["caller"] = orig
  /\ constructed =>
       /\ heap[self_graph] = orig
       /\ initial_size = GraphLen(orig)
       /\ initial_gc_size = GetGcSizeOnly(orig)

C4_Witness ==
  /\ \E t \in Threads :
       /\ frame[t].pc = "done"
       /\ frame[t].removed_count > 0
       /\ heap[frame[t].G] # heap[self_graph]
  /\ GraphLen(orig) > 0

\* C5: a call with steps <= 0 never fails with an arithmetic fault and never
\* returns a result with zero batches for a non-empty graph.
C5_NonPositiveStepsHandled ==
  \A t \in Threads : frame[t].steps <= 0 /\ frame[t].pc # "idle" =>
    /\ frame[t].error # "ZeroDivisionError"
    /\ (frame[t].pc = "done" /\ frame[t].N > 0) => Len(frame[t].batches) >= 1

\* C6: on an engine built on a graph without edges (the empty graph included),
\* a call with a known strategy and steps >= 1 never divides by zero (no
\* ZeroDivisionError, no reading with a zero divisor), never fails, and what it
\* returns is the complete series: one reading per batch after the first.
C6_NoZeroDivision ==
  \A t \in Threads :
    (orig.edges = {} /\ frame[t].steps >= 1 /\ frame[t].strategy # "pagerank") =>
      /\ frame[t].error = "none"
      /\ frame[t].pc # "failed"
      /\ \A i \in 1..Len(frame[t].res.x) : frame[t].res.x[i][2] # 0
      /\ \A i \in 1..Len(frame[t].res.gc) : frame[t].res.gc[i][2] # 0
      /\ frame[t].pc = "done" =>
           /\ Len(frame[t].res.x) = Len(frame[t].batches) + 1
           /\ Len(frame[t].res.gc) = Len(frame[t].batches) + 1
           /\ Len(frame[t].res.frag) = Len(frame[t].batches) + 1
           /\ (GraphLen(orig) = 0 => Len(frame[t].batches) = 0)

C6_Witness ==
  \E t \in Threads :
    /\ Returned(t)
    /\ GraphLen(orig) = 0
    /\ initial_gc_size = 0
    /\ frame[t].res.gc = <<Frac(1, 1)>>

\* the nodes of all batches, in the order of their removal
RECURSIVE Flatten(_)
Flatten(ss) == IF ss = <<>> THEN <<>> ELSE Head(ss) \o Flatten(Tail(ss))

\* C9: with chunk = max(1, floor(N / steps)) and steps >= 1, the k-th batch is
\* the positions (k-1)*chunk .. min(k*chunk, N)-1 of the ranking computed on the
\* unmodified graph (run alone: from the generator state at the call); every
\* batch is non-empty, only the last may be shorter than chunk, no node is
\* removed twice.
C9_BatchesFollowRanking ==
  \A t \in Threads :
    (frame[t].pc \in {"loop", "done"} /\ frame[t].steps >= 1) =>
      LET f == frame[t]
          b == f.batches
      IN /\ f.chunk = Max2(1, f.N \div f.steps)
         /\ f.nodes = RankingOf(orig, f.strategy, f.rng0)
         /\ \A k \in 1..Len(b) :
              /\ b[k] = SubSeq(f.nodes, (k - 1) * f.chunk + 1, Min2(k * f.chunk, f.N))
              /\ Len(b[k]) >= 1
         /\ \A k \in 1..Len(b) - 1 : Len(b[k]) = f.chunk
         /\ Cardinality(Range(Flatten(b))) = Len(Flatten(b))
         /\ f.removed_count = Len(Flatten(b))

C9_Witness ==
  \E t \in Threads :
    /\ Returned(t)
    /\ frame[t].chunk >= 2
    /\ Len(frame[t].batches) >= 2

\* C10: in every result returned for steps >= 1, res['gc'] never increases
\* from one reading to the next and every value lies in [0, 1].
C10_GcFractionNonIncreasing ==
  \A t \in Threads : Returned(t) =>
    LET gc == frame[t].res.gc
    IN /\ \A i \in 1..Len(gc) : gc[i][2] > 0 /\ 0 <= gc[i][1] /\ gc[i][1] <= gc[i][2]
       /\ NonIncreasing(gc)

C10_Witness ==
  \E t \in Threads :
    /\ Returned(t)
    /\ Cardinality(Components(orig)) >= 2
    /\ \E i \in 1..Len(frame[t].res.gc) - 1 :
         /\ ~FracEq(frame[t].res.gc[i], frame[t].res.gc[i + 1])
         /\ frame[t].res.gc[i + 1][1] > 0

\* ------------------------------------------------------- the star of claim C8
\* one hub h with an edge to each of StarLeaves leaves
StarGraph(h) ==
  [nodes |-> [i \in 1..StarLeaves + 1 |-> i],
   edges |-> {<<h, l>> : l \in (1..StarLeaves + 1) \ {h}}]

StarGraphs == {StarGraph(h) : h \in 1..StarLeaves + 1}

Hub(g) == CHOOSE n \in NodeSet(g) : Degree(g, n) = StarLeaves

InitStar == InitWith(StarGraphs, {0})

\* degree attacks on the star, one after another
NextStar ==
  \/ New
  \/ \E st \in 1..MaxStarSteps : Call(1, "degree", st)
  \/ Rank(1)
  \/ Setup(1)
  \/ Batch(1)
  \/ Return(1)

SpecStar == InitStar /\ [][NextStar]_vars

\* thread t's degree attack has removed its first batch and appended the reading
FirstBatchDone(t) ==
  /\ frame[t].strategy = "degree"
  /\ frame[t].pc \in {"loop", "done"}
  /\ Len(frame[t].batches) >= 1

\* the reading after the first batch: the hub is gone, the giant component is
\* one node (1 / (StarLeaves + 1) of the original), every leaf left is a
\* component of its own
HubGoneLeavesAlone(t) ==
  LET f == frame[t]
  IN /\ Hub(orig) \in Range(f.batches[1])
     /\ Len(f.res.gc) >= 2
     /\ FracEq(f.res.gc[2], Frac(1, StarLeaves + 1))
     /\ f.res.frag[2] = StarLeaves + 1 - Len(f.batches[1])
     /\ f.res.frag[2] >= 1

\* C8 as claimed: on the star, a degree attack with any steps >= 1 removes the
\* hub in the first batch and the reading after it has a giant component of
\* exactly one node, each remaining leaf its own component.
C8_StarCollapsesAnySteps ==
  \A t \in Threads : (FirstBatchDone(t) /\ frame[t].steps >= 1) => HubGoneLeavesAlone(t)

\* C8 amended: the same for every steps >= 2 (with steps = 1 the one batch is
\* the whole graph and the reading after it has a giant component of 0).
C8_StarCollapsesFromTwoSteps ==
  \A t \in Threads : (FirstBatchDone(t) /\ frame[t].steps >= 2) => HubGoneLeavesAlone(t)

C8_Witness ==
  \E t \in Threads :
    /\ FirstBatchDone(t)
    /\ frame[t].steps >= 2
    /\ frame[t].chunk >= 2
    /\ frame[t].pc = "done"
    /\ frame[t].res.gc[2] = Frac(1, StarLeaves + 1)

\* ------------------------------------------------- two calls on one engine
ConcGraphs == {PathGraph(n) : n \in 0..MaxNodes}

InitConc == InitWith(ConcGraphs, 0 .. RngMod - 1)

\* simulate called from two threads on the same engine, interleaved at every
\* step of either call
NextConc ==
  \/ New
  \/ \E t \in Threads :
       \/ \E strat \in Strategies, st \in 1..MaxConcSteps : Call(t, strat, st)
       \/ Rank(t)
       \/ ShuffleStep(t)
       \/ Setup(t)
       \/ Batch(t)
       \/ Return(t)

SpecConc == InitConc /\ [][NextConc]_vars

\* C7: interleaved with another call on the same engine, a call returns what
\* it would return run alone from the state it was called in.
C7_SameResultAsAlone ==
  \A t \in Threads : Returned(t) =>
    frame[t].res = SimulateAlone(orig, frame[t].strategy, frame[t].steps, frame[t].rng0)

====
